---------------------------- MODULE Spec2Model ----------------------------
(***************************************************************************)
(* A model of the BigCommerce inventory / order-shipment client            *)
(* (inventory.go).  Every operation of the client is one blocking HTTP     *)
(* round trip: build the request, hand it to the transport, decode the     *)
(* response.  A call is one action; the transport's answer is an input of  *)
(* the action.  Strings are TLA+ strings, JSON text sent to the server is  *)
(* produced character for character, JSON received from the server is a    *)
(* parsed document (or a text that does not parse).                        *)
(***************************************************************************)
EXTENDS Integers, Sequences, FiniteSets, TLC

VARIABLES
    pc,       \* "idle": no call in progress; "returned": the call has returned
    op,       \* the operation called
    args,     \* its arguments as the caller passed them
    req,      \* the request handed to the transport
    resp,     \* what the transport answered
    result,   \* the operation's first return value
    err,      \* the operation's second return value
    closes,   \* how many times the response body was closed before the return
    callB     \* a second call of the same operation (SpecPair only)

vars == <<pc, op, args, req, resp, result, err, closes, callB>>

(***************************************************************************)
(* Bounds of the model.                                                    *)
(***************************************************************************)
MaxId == 1
MaxFilters == 2
MaxItems == 1

(***************************************************************************)
(* Go values: pointers, slices, errors.                                    *)
(***************************************************************************)
\* A pointer is nil or refers to one value.
Nil == <<>>
Ref(x) == <<x>>
IsNil(p) == Len(p) = 0
Deref(p) == p[1]

\* A slice is nil or holds elements; an empty slice need not be nil.
NilSlice == [isNil |-> TRUE, elems |-> <<>>]
Slice(e) == [isNil |-> FALSE, elems |-> e]

\* The nil error.
NoErr == "nil"

(***************************************************************************)
(* Strings.                                                                *)
(***************************************************************************)
Digit(d) == SubSeq("0123456789", d + 1, d + 1)

RECURSIVE Itoa(_)
\* fmt's %d verb on an int64
Itoa(n) ==
    IF n < 0 THEN "-" \o Itoa(-n)
    ELSE IF n < 10 THEN Digit(n)
    ELSE Itoa(n \div 10) \o Digit(n % 10)

RECURSIVE Join(_, _)
\* strings.Join(elems, sep)
Join(elems, sep) ==
    IF Len(elems) = 0 THEN ""
    ELSE IF Len(elems) = 1 THEN elems[1]
    ELSE elems[1] \o sep \o Join(Tail(elems), sep)

RECURSIVE QueryEscape(_)
\* url.QueryEscape on the strings of the model: the comma is escaped.
QueryEscape(s) ==
    IF Len(s) = 0 THEN ""
    ELSE (IF Head(s) = "," THEN "%2C" ELSE Head(s)) \o QueryEscape(Tail(s))

\* Mutant of SprintfParam: the parameter is escaped as url.Values would.
SprintfParamEscaped(k, v) == QueryEscape(k) \o "=" \o QueryEscape(v)

\* fmt.Sprintf("%s=%s", k, v)
SprintfParam(k, v) == k \o "=" \o v

\* Whether sub occurs in s.
Contains(s, sub) ==
    \E i \in 1..(Len(s) - Len(sub) + 1) : SubSeq(s, i, i + Len(sub) - 1) = sub


(***************************************************************************)
(* The data model: zero values of the structs.                             *)
(***************************************************************************)
ZeroShipmentAddress ==
    [FirstName |-> "", LastName |-> "", Company |-> "", Street1 |-> "",
     Street2 |-> "", City |-> "", State |-> "", Zip |-> "", Country |-> "",
     CountryIso2 |-> "", Phone |-> "", Email |-> ""]

ZeroShipmentItem == [OrderProductId |-> 0, ProductId |-> 0, Quantity |-> 0]

ZeroShipment ==
    [ID |-> 0, OrderId |-> 0, CustomerId |-> 0, OrderAddressId |-> 0,
     DateCreated |-> "", TrackingNumber |-> "", MerchantShippingCost |-> "",
     ShippingMethod |-> "", Comments |-> "", ShippingProvider |-> "",
     TrackingCarrier |-> "", BillingAddress |-> Nil, ShippingAddress |-> Nil,
     Items |-> NilSlice]

ZeroIdentity == [Sku |-> "", VariantID |-> 0, ProductID |-> 0]

ZeroSettings ==
    [SafetyStock |-> 0, IsInStock |-> FALSE, WarningLevel |-> 0,
     BinPickingNumber |-> ""]

ZeroInventory ==
    [Identity |-> ZeroIdentity, AvailableToSell |-> 0,
     TotalInventoryOnhand |-> 0, Settings |-> ZeroSettings]

ZeroLinks == [Previous |-> "", Current |-> "", Next |-> ""]

\* Pagination is declared outside inventory.go; the specification gives it
\* the three links.
ZeroPagination == [Links |-> ZeroLinks]

ZeroMeta == [Pagination |-> ZeroPagination]

ZeroInventoryResource == [Inventories |-> NilSlice, Meta |-> ZeroMeta]

(***************************************************************************)
(* json.Marshal of a Shipment: the members in the struct's order, a member *)
(* tagged omitempty left out when its value is the zero value.  The        *)
(* strings of the model hold no character that JSON escapes.               *)
(***************************************************************************)
Quote(s) == "\"" \o s \o "\""

Member(key, text) == Quote(key) \o ":" \o text

\* A member tagged omitempty: left out when empty.
OmitEmpty(empty, member) == IF empty THEN <<>> ELSE <<member>>

MarshalShipmentAddress(a) ==
    "{" \o Join(<<Member("first_name", Quote(a.FirstName)),
                  Member("last_name", Quote(a.LastName)),
                  Member("company", Quote(a.Company)),
                  Member("street_1", Quote(a.Street1)),
                  Member("street_2", Quote(a.Street2)),
                  Member("city", Quote(a.City)),
                  Member("state", Quote(a.State)),
                  Member("zip", Quote(a.Zip)),
                  Member("country", Quote(a.Country)),
                  Member("country_iso2", Quote(a.CountryIso2)),
                  Member("phone", Quote(a.Phone)),
                  Member("email", Quote(a.Email))>>, ",") \o "}"

MarshalShipmentItem(it) ==
    "{" \o Join(<<Member("order_product_id", Itoa(it.OrderProductId))>>
                \o OmitEmpty(it.ProductId = 0,
                             Member("product_id", Itoa(it.ProductId)))
                \o <<Member("quantity", Itoa(it.Quantity))>>, ",") \o "}"

\* A nil slice is null, any other slice an array.
MarshalItems(items) ==
    IF items.isNil THEN "null"
    ELSE "[" \o Join([i \in 1..Len(items.elems) |->
                         MarshalShipmentItem(items.elems[i])], ",") \o "]"

MarshalShipment(s) ==
    "{" \o Join(
        OmitEmpty(s.ID = 0, Member("id", Itoa(s.ID)))
        \o OmitEmpty(s.OrderId = 0, Member("order_id", Itoa(s.OrderId)))
        \o OmitEmpty(s.CustomerId = 0,
                     Member("customer_id", Itoa(s.CustomerId)))
        \o OmitEmpty(s.OrderAddressId = 0,
                     Member("order_address_id", Itoa(s.OrderAddressId)))
        \o OmitEmpty(s.DateCreated = "",
                     Member("date_created", Quote(s.DateCreated)))
        \o <<Member("tracking_number", Quote(s.TrackingNumber)),
             Member("merchant_shipping_cost", Quote(s.MerchantShippingCost)),
             Member("shipping_method", Quote(s.ShippingMethod)),
             Member("comments", Quote(s.Comments)),
             Member("shipping_provider", Quote(s.ShippingProvider)),
             Member("tracking_carrier", Quote(s.TrackingCarrier))>>
        \o OmitEmpty(IsNil(s.BillingAddress),
                     Member("billing_address",
                            IF IsNil(s.BillingAddress) THEN "null"
                            ELSE MarshalShipmentAddress(Deref(s.BillingAddress))))
        \o OmitEmpty(IsNil(s.ShippingAddress),
                     Member("shipping_address",
                            IF IsNil(s.ShippingAddress) THEN "null"
                            ELSE MarshalShipmentAddress(Deref(s.ShippingAddress))))
        \o <<Member("items", MarshalItems(s.Items))>>, ",") \o "}"

\* Mutant of AllowListShipment: the rebuilt shipment keeps the id.
AllowListShipmentKeepingID(shipment) ==
    [ZeroShipment EXCEPT
        !.ID = shipment.ID,
        !.OrderAddressId = shipment.OrderAddressId,
        !.TrackingNumber = shipment.TrackingNumber,
        !.ShippingMethod = shipment.ShippingMethod,
        !.Comments = shipment.Comments,
        !.ShippingProvider = shipment.ShippingProvider,
        !.TrackingCarrier = shipment.TrackingCarrier,
        !.Items = shipment.Items]

\* The composite literal that rebuilds the shipment from its writable fields.
AllowListShipment(shipment) ==
    [ZeroShipment EXCEPT
        !.OrderAddressId = shipment.OrderAddressId,
        !.TrackingNumber = shipment.TrackingNumber,
        !.ShippingMethod = shipment.ShippingMethod,
        !.Comments = shipment.Comments,
        !.ShippingProvider = shipment.ShippingProvider,
        !.TrackingCarrier = shipment.TrackingCarrier,
        !.Items = shipment.Items]

(***************************************************************************)
(* JSON received from the server.  A body is a text that does not parse,   *)
(* or a document: a value tagged with its JSON type.  An object is a       *)
(* function from its keys to values, an array a sequence of values.        *)
(***************************************************************************)
JNull == [t |-> "null", v |-> 0]
JNum(n) == [t |-> "num", v |-> n]
JStr(s) == [t |-> "str", v |-> s]
JBool(b) == [t |-> "bool", v |-> b]
JObj(o) == [t |-> "obj", v |-> o]
JArr(a) == [t |-> "arr", v |-> a]

\* The bytes of a body: whether they parse as JSON, and the document if so.
Text(doc) == [parses |-> TRUE, doc |-> doc]
Garbage == [parses |-> FALSE, doc |-> JNull]

\* encoding/json's errors.
SyntaxError == "json: syntax error"
UnmarshalTypeError == "json: cannot unmarshal"

\* A member of object o decoded into a field of JSON type t holding old:
\* an absent member and a null leave the field alone.
Field(o, k, t, old) ==
    IF k \in DOMAIN o /\ o[k].t = t THEN o[k].v ELSE old

\* The member, when present, has the field's JSON type (or is null).
FieldOk(o, k, t) == k \in DOMAIN o => o[k].t \in {t, "null"}

\* The member is an object, an array.
IsObj(o, k) == k \in DOMAIN o /\ o[k].t = "obj"
IsArr(o, k) == k \in DOMAIN o /\ o[k].t = "arr"

\* The elements of an array that are not objects of the element's struct:
\* null is skipped, anything else is a type error.
ElemsOk(a) == \A i \in 1..Len(a) : a[i].t \in {"obj", "null"}

DecodeShipmentAddress(o, old) ==
    [FirstName |-> Field(o, "first_name", "str", old.FirstName),
     LastName |-> Field(o, "last_name", "str", old.LastName),
     Company |-> Field(o, "company", "str", old.Company),
     Street1 |-> Field(o, "street_1", "str", old.Street1),
     Street2 |-> Field(o, "street_2", "str", old.Street2),
     City |-> Field(o, "city", "str", old.City),
     State |-> Field(o, "state", "str", old.State),
     Zip |-> Field(o, "zip", "str", old.Zip),
     Country |-> Field(o, "country", "str", old.Country),
     CountryIso2 |-> Field(o, "country_iso2", "str", old.CountryIso2),
     Phone |-> Field(o, "phone", "str", old.Phone),
     Email |-> Field(o, "email", "str", old.Email)]

ShipmentAddressOk(o) ==
    \A k \in {"first_name", "last_name", "company", "street_1", "street_2",
              "city", "state", "zip", "country", "country_iso2", "phone",
              "email"} : FieldOk(o, k, "str")

DecodeShipmentItem(o, old) ==
    [OrderProductId |-> Field(o, "order_product_id", "num", old.OrderProductId),
     ProductId |-> Field(o, "product_id", "num", old.ProductId),
     Quantity |-> Field(o, "quantity", "num", old.Quantity)]

ShipmentItemOk(o) ==
    \A k \in {"order_product_id", "product_id", "quantity"} :
        FieldOk(o, k, "num")

DecodeShipment(o, old) ==
    [ID |-> Field(o, "id", "num", old.ID),
     OrderId |-> Field(o, "order_id", "num", old.OrderId),
     CustomerId |-> Field(o, "customer_id", "num", old.CustomerId),
     OrderAddressId |-> Field(o, "order_address_id", "num", old.OrderAddressId),
     DateCreated |-> Field(o, "date_created", "str", old.DateCreated),
     TrackingNumber |-> Field(o, "tracking_number", "str", old.TrackingNumber),
     MerchantShippingCost |->
         Field(o, "merchant_shipping_cost", "str", old.MerchantShippingCost),
     ShippingMethod |-> Field(o, "shipping_method", "str", old.ShippingMethod),
     Comments |-> Field(o, "comments", "str", old.Comments),
     ShippingProvider |->
         Field(o, "shipping_provider", "str", old.ShippingProvider),
     TrackingCarrier |-> Field(o, "tracking_carrier", "str", old.TrackingCarrier),
     BillingAddress |->
         \* a pointer: null makes it nil, an object is decoded into what it
         \* points to, allocated when it is nil
         IF "billing_address" \in DOMAIN o /\ o["billing_address"].t = "null"
         THEN Nil
         ELSE IF IsObj(o, "billing_address")
         THEN Ref(DecodeShipmentAddress(o["billing_address"].v,
                      IF IsNil(old.BillingAddress) THEN ZeroShipmentAddress
                      ELSE Deref(old.BillingAddress)))
         ELSE old.BillingAddress,
     ShippingAddress |->
         IF "shipping_address" \in DOMAIN o /\ o["shipping_address"].t = "null"
         THEN Nil
         ELSE IF IsObj(o, "shipping_address")
         THEN Ref(DecodeShipmentAddress(o["shipping_address"].v,
                      IF IsNil(old.ShippingAddress) THEN ZeroShipmentAddress
                      ELSE Deref(old.ShippingAddress)))
         ELSE old.ShippingAddress,
     Items |->
         \* a slice: null makes it nil, an array replaces it
         IF "items" \in DOMAIN o /\ o["items"].t = "null" THEN NilSlice
         ELSE IF IsArr(o, "items")
         THEN Slice([i \in 1..Len(o["items"].v) |->
                        IF o["items"].v[i].t = "obj"
                        THEN DecodeShipmentItem(o["items"].v[i].v,
                                                ZeroShipmentItem)
                        ELSE ZeroShipmentItem])
         ELSE old.Items]

ShipmentOk(o) ==
    /\ \A k \in {"id", "order_id", "customer_id", "order_address_id"} :
          FieldOk(o, k, "num")
    /\ \A k \in {"date_created", "tracking_number", "merchant_shipping_cost",
                 "shipping_method", "comments", "shipping_provider",
                 "tracking_carrier"} : FieldOk(o, k, "str")
    /\ FieldOk(o, "billing_address", "obj")
    /\ IsObj(o, "billing_address") => ShipmentAddressOk(o["billing_address"].v)
    /\ FieldOk(o, "shipping_address", "obj")
    /\ IsObj(o, "shipping_address") => ShipmentAddressOk(o["shipping_address"].v)
    /\ FieldOk(o, "items", "arr")
    /\ IsArr(o, "items") =>
          /\ ElemsOk(o["items"].v)
          /\ \A i \in 1..Len(o["items"].v) :
                o["items"].v[i].t = "obj" => ShipmentItemOk(o["items"].v[i].v)

DecodeIdentity(o, old) ==
    [Sku |-> Field(o, "sku", "str", old.Sku),
     VariantID |-> Field(o, "variant_id", "num", old.VariantID),
     ProductID |-> Field(o, "product_id", "num", old.ProductID)]

IdentityOk(o) ==
    /\ FieldOk(o, "sku", "str")
    /\ FieldOk(o, "variant_id", "num")
    /\ FieldOk(o, "product_id", "num")

DecodeSettings(o, old) ==
    [SafetyStock |-> Field(o, "safety_stock", "num", old.SafetyStock),
     IsInStock |-> Field(o, "is_in_stock", "bool", old.IsInStock),
     WarningLevel |-> Field(o, "warning_level", "num", old.WarningLevel),
     BinPickingNumber |->
         Field(o, "bin_picking_number", "str", old.BinPickingNumber)]

SettingsOk(o) ==
    /\ FieldOk(o, "safety_stock", "num")
    /\ FieldOk(o, "is_in_stock", "bool")
    /\ FieldOk(o, "warning_level", "num")
    /\ FieldOk(o, "bin_picking_number", "str")

DecodeInventory(o, old) ==
    [Identity |-> IF IsObj(o, "identity")
                  THEN DecodeIdentity(o["identity"].v, old.Identity)
                  ELSE old.Identity,
     AvailableToSell |->
         Field(o, "available_to_sell", "num", old.AvailableToSell),
     TotalInventoryOnhand |->
         Field(o, "total_inventory_onhand", "num", old.TotalInventoryOnhand),
     Settings |-> IF IsObj(o, "settings")
                  THEN DecodeSettings(o["settings"].v, old.Settings)
                  ELSE old.Settings]

InventoryOk(o) ==
    /\ FieldOk(o, "identity", "obj")
    /\ IsObj(o, "identity") => IdentityOk(o["identity"].v)
    /\ FieldOk(o, "available_to_sell", "num")
    /\ FieldOk(o, "total_inventory_onhand", "num")
    /\ FieldOk(o, "settings", "obj")
    /\ IsObj(o, "settings") => SettingsOk(o["settings"].v)

DecodeLinks(o, old) ==
    [Previous |-> Field(o, "previous", "str", old.Previous),
     Current |-> Field(o, "current", "str", old.Current),
     Next |-> Field(o, "next", "str", old.Next)]

LinksOk(o) ==
    \A k \in {"previous", "current", "next"} : FieldOk(o, k, "str")

DecodePagination(o, old) ==
    [Links |-> IF IsObj(o, "links") THEN DecodeLinks(o["links"].v, old.Links)
               ELSE old.Links]

PaginationOk(o) ==
    /\ FieldOk(o, "links", "obj")
    /\ IsObj(o, "links") => LinksOk(o["links"].v)

DecodeMeta(o, old) ==
    [Pagination |-> IF IsObj(o, "pagination")
                    THEN DecodePagination(o["pagination"].v, old.Pagination)
                    ELSE old.Pagination]

MetaOk(o) ==
    /\ FieldOk(o, "pagination", "obj")
    /\ IsObj(o, "pagination") => PaginationOk(o["pagination"].v)

DecodeInventoryResource(o, old) ==
    [Inventories |->
         IF "data" \in DOMAIN o /\ o["data"].t = "null" THEN NilSlice
         ELSE IF IsArr(o, "data")
         THEN Slice([i \in 1..Len(o["data"].v) |->
                        IF o["data"].v[i].t = "obj"
                        THEN DecodeInventory(o["data"].v[i].v, ZeroInventory)
                        ELSE ZeroInventory])
         ELSE old.Inventories,
     Meta |-> IF IsObj(o, "meta") THEN DecodeMeta(o["meta"].v, old.Meta)
              ELSE old.Meta]

InventoryResourceOk(o) ==
    /\ FieldOk(o, "data", "arr")
    /\ IsArr(o, "data") =>
          /\ ElemsOk(o["data"].v)
          /\ \A i \in 1..Len(o["data"].v) :
                o["data"].v[i].t = "obj" => InventoryOk(o["data"].v[i].v)
    /\ FieldOk(o, "meta", "obj")
    /\ IsObj(o, "meta") => MetaOk(o["meta"].v)

(***************************************************************************)
(* json.Unmarshal(body, &target) for the three targets of the client.      *)
(* Each gives [val, err]: the target after the call and the error.  A text *)
(* that does not parse leaves the target alone; a value of the wrong type  *)
(* is skipped and reported.                                                *)
(***************************************************************************)
\* target is a *Shipment: null makes it nil; any other value allocates a
\* Shipment when target is nil, and an object is decoded into it.
UnmarshalShipmentPtr(body, target) ==
    IF ~body.parses THEN [val |-> target, err |-> SyntaxError]
    ELSE IF body.doc.t = "null" THEN [val |-> Nil, err |-> NoErr]
    ELSE IF body.doc.t = "obj"
         THEN [val |-> Ref(DecodeShipment(body.doc.v,
                               IF IsNil(target) THEN ZeroShipment
                               ELSE Deref(target))),
               err |-> IF ShipmentOk(body.doc.v) THEN NoErr
                       ELSE UnmarshalTypeError]
    ELSE [val |-> IF IsNil(target) THEN Ref(ZeroShipment) ELSE target,
          err |-> UnmarshalTypeError]

\* target is a []Shipment: null makes it nil, an array replaces it.
UnmarshalShipments(body, target) ==
    IF ~body.parses THEN [val |-> target, err |-> SyntaxError]
    ELSE IF body.doc.t = "null" THEN [val |-> NilSlice, err |-> NoErr]
    ELSE IF body.doc.t = "arr"
         THEN [val |-> Slice([i \in 1..Len(body.doc.v) |->
                                 IF body.doc.v[i].t = "obj"
                                 THEN DecodeShipment(body.doc.v[i].v, ZeroShipment)
                                 ELSE ZeroShipment]),
               err |-> IF /\ ElemsOk(body.doc.v)
                          /\ \A i \in 1..Len(body.doc.v) :
                                body.doc.v[i].t = "obj" =>
                                    ShipmentOk(body.doc.v[i].v)
                       THEN NoErr ELSE UnmarshalTypeError]
    ELSE [val |-> target, err |-> UnmarshalTypeError]

\* target is an InventoryResource: null leaves it alone.
UnmarshalInventoryResource(body, target) ==
    IF ~body.parses THEN [val |-> target, err |-> SyntaxError]
    ELSE IF body.doc.t = "null" THEN [val |-> target, err |-> NoErr]
    ELSE IF body.doc.t = "obj"
         THEN [val |-> DecodeInventoryResource(body.doc.v, target),
               err |-> IF InventoryResourceOk(body.doc.v) THEN NoErr
                       ELSE UnmarshalTypeError]
    ELSE [val |-> target, err |-> UnmarshalTypeError]

(***************************************************************************)
(* The transport and the response decoder.                                 *)
(***************************************************************************)
StatusNoContent == 204

\* The decoder's errors: the short circuit on 204, a body that cannot be read.
ErrNoContent == "no content"
ErrRead == "unexpected EOF"

\* processBody(res) is declared outside inventory.go.  As the specification
\* describes it: the raw bytes of the body, or a failure; status 204 short
\* circuits with "no content".  [body, err]
processBody(res) ==
    IF res.StatusCode = StatusNoContent
    THEN [body |-> Garbage, err |-> ErrNoContent]
    ELSE IF res.readFails THEN [body |-> Garbage, err |-> ErrRead]
    ELSE [body |-> res.Body, err |-> NoErr]

\* The request handed to bc.HTTPClient.Do; hasBody is false for a nil body.
NewRequest(method, url) ==
    [method |-> method, url |-> url, hasBody |-> FALSE, body |-> ""]
NewRequestWithBody(method, url, body) ==
    [method |-> method, url |-> url, hasBody |-> TRUE, body |-> body]

(***************************************************************************)
(* GetInventoryForLocation and GetOrderShipments.                          *)
(***************************************************************************)
\* The range over the filter map appends one parameter per entry; order is
\* the order in which the map happens to be iterated.
RangeParams(filters, order) ==
    [i \in 1..Len(order) |-> SprintfParam(order[i], filters[order[i]])]

InventoryItemsPath(ID) == "/v3/inventory/locations/" \o Itoa(ID) \o "/items"

GetInventoryForLocationReq(ID, params) ==
    NewRequest("GET", InventoryItemsPath(ID) \o Join(params, "&"))

\* From the transport's answer to the return: [result, err, closes]
GetInventoryForLocationRet(tr) ==
    IF ~tr.ok THEN [result |-> Nil, err |-> tr.err, closes |-> 0]
    ELSE LET pb == processBody(tr)
             u == UnmarshalInventoryResource(pb.body, ZeroInventoryResource)
         IN  IF pb.err # NoErr
             THEN IF tr.StatusCode = StatusNoContent
                  THEN [result |-> Ref(ZeroInventoryResource), err |-> NoErr,
                        closes |-> 1]
                  ELSE [result |-> Nil, err |-> pb.err, closes |-> 1]
             ELSE IF u.err # NoErr
                  THEN [result |-> Nil, err |-> u.err, closes |-> 1]
                  ELSE [result |-> Ref(u.val), err |-> NoErr, closes |-> 1]

OrderShipmentsPath(orderId) == "/v2/orders/" \o Itoa(orderId) \o "/shipments"

GetOrderShipmentsReq(orderId, params) ==
    NewRequest("GET", OrderShipmentsPath(orderId) \o "?" \o Join(params, "&"))

\* Mutant of GetOrderShipmentsRet: the error of json.Unmarshal is dropped.
GetOrderShipmentsRetIgnoresDecodeError(tr) ==
    IF ~tr.ok THEN [result |-> NilSlice, err |-> tr.err, closes |-> 0]
    ELSE LET pb == processBody(tr)
             u == UnmarshalShipments(pb.body, NilSlice)
         IN  IF pb.err # NoErr
             THEN IF tr.StatusCode = StatusNoContent
                  THEN [result |-> Slice(<<>>), err |-> NoErr, closes |-> 1]
                  ELSE [result |-> NilSlice, err |-> pb.err, closes |-> 1]
             ELSE [result |-> u.val, err |-> NoErr, closes |-> 1]

GetOrderShipmentsRet(tr) ==
    IF ~tr.ok THEN [result |-> NilSlice, err |-> tr.err, closes |-> 0]
    ELSE LET pb == processBody(tr)
             u == UnmarshalShipments(pb.body, NilSlice)
         IN  IF pb.err # NoErr
             THEN IF tr.StatusCode = StatusNoContent
                  THEN [result |-> Slice(<<>>), err |-> NoErr, closes |-> 1]
                  ELSE [result |-> NilSlice, err |-> pb.err, closes |-> 1]
             ELSE IF u.err # NoErr
                  THEN [result |-> NilSlice, err |-> u.err, closes |-> 1]
                  ELSE [result |-> u.val, err |-> NoErr, closes |-> 1]

(***************************************************************************)
(* The operations on one shipment.                                         *)
(***************************************************************************)
\* Mutant of ShipmentRet: status 204 is not told from the decoder's other
\* failures.
ShipmentRetNoContentIsError(s, tr) ==
    IF ~tr.ok THEN [result |-> Nil, err |-> tr.err, closes |-> 0]
    ELSE LET pb == processBody(tr)
             u == UnmarshalShipmentPtr(pb.body, s)
         IN  IF pb.err # NoErr
             THEN [result |-> Nil, err |-> pb.err, closes |-> 1]
             ELSE IF u.err # NoErr
                  THEN [result |-> Nil, err |-> u.err, closes |-> 1]
                  ELSE [result |-> u.val, err |-> NoErr, closes |-> 1]

\* The part the three operations share word for word: from the transport's
\* answer to the return, decoding into the *Shipment s.
ShipmentRet(s, tr) ==
    IF ~tr.ok THEN [result |-> Nil, err |-> tr.err, closes |-> 0]
    ELSE LET pb == processBody(tr)
             u == UnmarshalShipmentPtr(pb.body, s)
         IN  IF pb.err # NoErr
             THEN IF tr.StatusCode = StatusNoContent
                  THEN [result |-> Ref(ZeroShipment), err |-> NoErr,
                        closes |-> 1]
                  ELSE [result |-> Nil, err |-> pb.err, closes |-> 1]
             ELSE IF u.err # NoErr
                  THEN [result |-> Nil, err |-> u.err, closes |-> 1]
                  ELSE [result |-> u.val, err |-> NoErr, closes |-> 1]

\* json.Marshal cannot fail on a Shipment (integers, strings, structs of
\* them), so the request is always sent.
CreateOrderShipmentReq(orderId, shipment) ==
    NewRequestWithBody("POST", OrderShipmentsPath(orderId),
                       MarshalShipment(AllowListShipment(shipment)))

\* shipment is the rebuilt shipment, in scope and unused: s starts nil.
CreateOrderShipmentRet(shipment, tr) == ShipmentRet(Nil, tr)

OrderShipmentPath(orderId, shipmentId) ==
    "/v2/orders/" \o Itoa(orderId) \o "/shipments/" \o Itoa(shipmentId)

GetOrderShipmentReq(orderId, shipmentId) ==
    NewRequest("GET", OrderShipmentPath(orderId, shipmentId))

GetOrderShipmentRet(tr) == ShipmentRet(Nil, tr)

\* Mutant of UpdateOrderShipmentReq: the url is formatted after the
\* shipment is rebuilt.
UpdateOrderShipmentReqUrlAfterRebuild(orderId, shipment) ==
    NewRequestWithBody("PUT",
                       OrderShipmentPath(orderId, AllowListShipment(shipment).ID),
                       MarshalShipment(AllowListShipment(shipment)))

\* The url is formatted from the shipment as passed, before it is rebuilt.
UpdateOrderShipmentReq(orderId, shipment) ==
    NewRequestWithBody("PUT", OrderShipmentPath(orderId, shipment.ID),
                       MarshalShipment(AllowListShipment(shipment)))

\* Mutant of UpdateOrderShipmentRet: the response is decoded into the
\* caller's (rebuilt) shipment.
UpdateOrderShipmentRetDecodesIntoInput(shipment, tr) ==
    ShipmentRet(Ref(shipment), tr)

\* shipment is the rebuilt shipment, in scope and unused: s starts nil.
UpdateOrderShipmentRet(shipment, tr) == ShipmentRet(Nil, tr)

(***************************************************************************)
(* The delete operations: the response is dropped unread.                  *)
(***************************************************************************)
DeleteOrderShipmentsReq(orderId) ==
    NewRequest("DELETE", OrderShipmentsPath(orderId))

DeleteOrderShipmentsRet(tr) ==
    IF ~tr.ok THEN [result |-> FALSE, err |-> tr.err, closes |-> 0]
    ELSE [result |-> TRUE, err |-> NoErr, closes |-> 0]

DeleteOrderShipmentReq(orderId, shipmentId) ==
    NewRequest("DELETE", OrderShipmentPath(orderId, shipmentId))

\* Mutant of DeleteOrderShipmentRet: a status of 400 or more is a failure.
DeleteOrderShipmentRetChecksStatus(tr) ==
    IF ~tr.ok THEN [result |-> FALSE, err |-> tr.err, closes |-> 0]
    ELSE IF tr.StatusCode >= 400
         THEN [result |-> FALSE, err |-> "unexpected status", closes |-> 0]
    ELSE [result |-> TRUE, err |-> NoErr, closes |-> 0]

DeleteOrderShipmentRet(tr) ==
    IF ~tr.ok THEN [result |-> FALSE, err |-> tr.err, closes |-> 0]
    ELSE [result |-> TRUE, err |-> NoErr, closes |-> 0]

(***************************************************************************)
(* The inputs of the model: what a caller may pass and what the transport  *)
(* may answer.                                                             *)
(***************************************************************************)
\* Location, order and shipment ids: zero, small ones, one of two digits.
Ids == (0..MaxId) \cup {42}

FilterKeys == {"sku.in", "page", "limit"}
FilterVals == {"A,B", "2"}

\* The filter maps of at most MaxFilters entries.
FilterMaps ==
    UNION {[K -> FilterVals] :
              K \in {S \in SUBSET FilterKeys : Cardinality(S) <= MaxFilters}}

\* The orders in which a range over the map may visit its keys.
Orders(filters) ==
    {o \in [1..Cardinality(DOMAIN filters) -> DOMAIN filters] :
        \A i, j \in DOMAIN o : i # j => o[i] # o[j]}

SomeAddress ==
    [FirstName |-> "Ada", LastName |-> "Byron", Company |-> "", Street1 |-> "1 Main St",
     Street2 |-> "", City |-> "Austin", State |-> "Texas", Zip |-> "78701",
     Country |-> "United States", CountryIso2 |-> "US", Phone |-> "",
     Email |-> "ada@example.com"]

\* The k-th item of an order; the first has no product id.
Item(k) == [OrderProductId |-> 9 + k, ProductId |-> k - 1, Quantity |-> 2]

ItemSlices ==
    {NilSlice} \cup {Slice([k \in 1..n |-> Item(k)]) : n \in 0..MaxItems}

\* A caller's shipment: its id, which non-writable fields it populates
\* ("none", "cost": the merchant's shipping cost alone, "all"), whether it
\* populates the writable ones, and its items.
CallerShipment(id, readOnly, writable, items) ==
    [ID |-> id,
     OrderId |-> IF readOnly = "all" THEN 55 ELSE 0,
     CustomerId |-> IF readOnly = "all" THEN 3 ELSE 0,
     OrderAddressId |-> IF writable THEN 8 ELSE 0,
     DateCreated |-> IF readOnly = "all" THEN "Wed, 19 Sep 2012" ELSE "",
     TrackingNumber |-> IF writable THEN "1Z999" ELSE "",
     MerchantShippingCost |-> IF readOnly = "none" THEN "" ELSE "9.99",
     ShippingMethod |-> IF writable THEN "Ground" ELSE "",
     Comments |-> IF writable THEN "fragile" ELSE "",
     ShippingProvider |-> IF writable THEN "ups" ELSE "",
     TrackingCarrier |-> IF writable THEN "ups" ELSE "",
     BillingAddress |-> IF readOnly = "all" THEN Ref(SomeAddress) ELSE Nil,
     ShippingAddress |-> IF readOnly = "all" THEN Ref(SomeAddress) ELSE Nil,
     Items |-> items]

CallerShipments ==
    {CallerShipment(id, readOnly, writable, items) :
        id \in Ids, readOnly \in {"none", "cost", "all"},
        writable \in BOOLEAN, items \in ItemSlices}

\* The documents a server may answer with.
ServerShipment ==
    JObj([id |-> JNum(7), order_id |-> JNum(55), customer_id |-> JNum(3),
          order_address_id |-> JNum(8),
          date_created |-> JStr("Wed, 19 Sep 2012"),
          tracking_number |-> JStr("1Z999"),
          merchant_shipping_cost |-> JStr("0.0000"),
          shipping_method |-> JStr("Ground"), comments |-> JStr(""),
          shipping_provider |-> JStr("ups"), tracking_carrier |-> JNull,
          billing_address |-> JObj([first_name |-> JStr("Ada"),
                                    country_iso2 |-> JStr("US")]),
          shipping_address |-> JNull,
          items |-> JArr(<<JObj([order_product_id |-> JNum(10),
                                 product_id |-> JNum(0),
                                 quantity |-> JNum(2)])>>),
          unknown |-> JBool(TRUE)])

ServerInventory ==
    JObj([data |-> JArr(<<JObj([identity |-> JObj([sku |-> JStr("A"),
                                                   variant_id |-> JNum(1),
                                                   product_id |-> JNum(2)]),
                                available_to_sell |-> JNum(5),
                                total_inventory_onhand |-> JNum(6),
                                settings |-> JObj([safety_stock |-> JNum(1),
                                                   is_in_stock |-> JBool(TRUE),
                                                   warning_level |-> JNum(0),
                                                   bin_picking_number |-> JStr("")])])>>),
          meta |-> JObj([pagination |->
                            JObj([links |-> JObj([current |-> JStr("?page=1"),
                                                  next |-> JStr("?page=2")])])])])

\* The bodies a response may carry: texts that parse and one that does not.
Bodies ==
    <<Garbage,
      Text(JNull),
      Text(JStr("oops")),
      Text(JObj([tracking_number |-> JStr("T2")])),
      Text(ServerShipment),
      Text(JObj([id |-> JStr("x"), data |-> JStr("x")])),
      Text(JArr(<<>>)),
      Text(JArr(<<ServerShipment>>)),
      Text(ServerInventory)>>

Statuses == {200, StatusNoContent, 404, 500}

TransportErrs == {"dial tcp: connection refused", "context deadline exceeded"}

\* What bc.HTTPClient.Do may do: fail with an error, or answer with a status
\* and a body (whose reading may fail).  A choice is
\* <<ok, error, status, index of the body, reading fails>>.
TransportChoices ==
    ({FALSE} \X TransportErrs \X {0} \X {1} \X {FALSE})
    \cup ({TRUE} \X {NoErr} \X Statuses \X (1..Len(Bodies)) \X BOOLEAN)

Transport(x) ==
    [ok |-> x[1], err |-> x[2], StatusCode |-> x[3], Body |-> Bodies[x[4]],
     readFails |-> x[5]]

(***************************************************************************)
(* The state machine: a call is one action, Return hands the result to the *)
(* caller and leaves the client ready for the next call.                   *)
(***************************************************************************)
NoArgs ==
    [ID |-> 0, orderId |-> 0, shipmentId |-> 0, filters |-> <<>>,
     shipment |-> ZeroShipment]

NoCall == [shipment |-> ZeroShipment, result |-> Nil, err |-> NoErr]

NoTransport == Transport(<<FALSE, NoErr, 0, 1, FALSE>>)

Init ==
    /\ pc = "idle"
    /\ op = "none"
    /\ args = NoArgs
    /\ req = NewRequest("", "")
    /\ resp = NoTransport
    /\ result = Nil
    /\ err = NoErr
    /\ closes = 0
    /\ callB = NoCall

\* The call of operation o with arguments a sent request r, the transport
\* did tr and the operation returned ret.
Called(o, a, r, tr, ret) ==
    /\ pc' = "returned"
    /\ op' = o
    /\ args' = a
    /\ req' = r
    /\ resp' = tr
    /\ result' = ret.result
    /\ err' = ret.err
    /\ closes' = ret.closes

GetInventoryForLocation ==
    /\ pc = "idle"
    /\ \E ID \in Ids, filters \in FilterMaps, x \in TransportChoices :
          \E order \in Orders(filters) :
              Called("GetInventoryForLocation",
                     [NoArgs EXCEPT !.ID = ID, !.filters = filters],
                     GetInventoryForLocationReq(ID, RangeParams(filters, order)),
                     Transport(x), GetInventoryForLocationRet(Transport(x)))
    /\ UNCHANGED callB

GetOrderShipments ==
    /\ pc = "idle"
    /\ \E orderId \in Ids, filters \in FilterMaps, x \in TransportChoices :
          \E order \in Orders(filters) :
              Called("GetOrderShipments",
                     [NoArgs EXCEPT !.orderId = orderId, !.filters = filters],
                     GetOrderShipmentsReq(orderId, RangeParams(filters, order)),
                     Transport(x), GetOrderShipmentsRet(Transport(x)))
    /\ UNCHANGED callB

CreateOrderShipmentCall(orderId, shipment, tr) ==
    Called("CreateOrderShipment",
           [NoArgs EXCEPT !.orderId = orderId, !.shipment = shipment],
           CreateOrderShipmentReq(orderId, shipment), tr,
           CreateOrderShipmentRet(AllowListShipment(shipment), tr))

CreateOrderShipment ==
    /\ pc = "idle"
    /\ \E orderId \in Ids, shipment \in CallerShipments, x \in TransportChoices :
          CreateOrderShipmentCall(orderId, shipment, Transport(x))
    /\ UNCHANGED callB

DeleteOrderShipments ==
    /\ pc = "idle"
    /\ \E orderId \in Ids, x \in TransportChoices :
          Called("DeleteOrderShipments", [NoArgs EXCEPT !.orderId = orderId],
                 DeleteOrderShipmentsReq(orderId),
                 Transport(x), DeleteOrderShipmentsRet(Transport(x)))
    /\ UNCHANGED callB

DeleteOrderShipment ==
    /\ pc = "idle"
    /\ \E orderId \in Ids, shipmentId \in Ids, x \in TransportChoices :
          Called("DeleteOrderShipment",
                 [NoArgs EXCEPT !.orderId = orderId, !.shipmentId = shipmentId],
                 DeleteOrderShipmentReq(orderId, shipmentId),
                 Transport(x), DeleteOrderShipmentRet(Transport(x)))
    /\ UNCHANGED callB

GetOrderShipment ==
    /\ pc = "idle"
    /\ \E orderId \in Ids, shipmentId \in Ids, x \in TransportChoices :
          Called("GetOrderShipment",
                 [NoArgs EXCEPT !.orderId = orderId, !.shipmentId = shipmentId],
                 GetOrderShipmentReq(orderId, shipmentId),
                 Transport(x), GetOrderShipmentRet(Transport(x)))
    /\ UNCHANGED callB

UpdateOrderShipmentCall(orderId, shipment, tr) ==
    Called("UpdateOrderShipment",
           [NoArgs EXCEPT !.orderId = orderId, !.shipment = shipment],
           UpdateOrderShipmentReq(orderId, shipment), tr,
           UpdateOrderShipmentRet(AllowListShipment(shipment), tr))

UpdateOrderShipment ==
    /\ pc = "idle"
    /\ \E orderId \in Ids, shipment \in CallerShipments, x \in TransportChoices :
          UpdateOrderShipmentCall(orderId, shipment, Transport(x))
    /\ UNCHANGED callB

\* The caller takes the result; nothing of the call is kept.
Return ==
    /\ pc = "returned"
    /\ pc' = "idle"
    /\ op' = "none"
    /\ args' = NoArgs
    /\ req' = NewRequest("", "")
    /\ resp' = NoTransport
    /\ result' = Nil
    /\ err' = NoErr
    /\ closes' = 0
    /\ callB' = NoCall

Next ==
    \/ GetInventoryForLocation
    \/ GetOrderShipments
    \/ CreateOrderShipment
    \/ DeleteOrderShipments
    \/ DeleteOrderShipment
    \/ GetOrderShipment
    \/ UpdateOrderShipment
    \/ Return

Spec == Init /\ [][Next]_vars

(***************************************************************************)
(* Two calls of a write operation answered alike: the second call's        *)
(* shipment, result and error are kept in callB.                           *)
(***************************************************************************)
\* The shipments the second caller passes: nothing populated, everything.
OtherShipments ==
    {CallerShipment(id, readOnly, readOnly = "all",
                    IF readOnly = "all" THEN Slice(<<Item(2)>>) ELSE NilSlice) :
        id \in {0, 42}, readOnly \in {"none", "all"}}

CreateOrderShipmentTwice ==
    /\ pc = "idle"
    /\ \E orderId \in Ids, shipment \in CallerShipments,
          other \in OtherShipments, x \in TransportChoices :
          /\ CreateOrderShipmentCall(orderId, shipment, Transport(x))
          /\ LET ret == CreateOrderShipmentRet(AllowListShipment(other),
                                               Transport(x))
             IN  callB' = [shipment |-> other, result |-> ret.result,
                           err |-> ret.err]

UpdateOrderShipmentTwice ==
    /\ pc = "idle"
    /\ \E orderId \in Ids, shipment \in CallerShipments,
          other \in OtherShipments, x \in TransportChoices :
          /\ UpdateOrderShipmentCall(orderId, shipment, Transport(x))
          /\ LET ret == UpdateOrderShipmentRet(AllowListShipment(other),
                                               Transport(x))
             IN  callB' = [shipment |-> other, result |-> ret.result,
                           err |-> ret.err]

NextPair ==
    \/ CreateOrderShipmentTwice
    \/ UpdateOrderShipmentTwice
    \/ Return

SpecPair == Init /\ [][NextPair]_vars

(***************************************************************************)
(* The properties.                                                         *)
(***************************************************************************)
Returned == pc = "returned"

FilterOps == {"GetInventoryForLocation", "GetOrderShipments"}
WriteOps == {"CreateOrderShipment", "UpdateOrderShipment"}
DeleteOps == {"DeleteOrderShipments", "DeleteOrderShipment"}
DecodingOps ==
    FilterOps \cup WriteOps \cup {"GetOrderShipment"}

\* The JSON keys of the Shipment fields outside the write allow-list.
NonWritableKeys ==
    {"id", "order_id", "customer_id", "date_created",
     "merchant_shipping_cost", "billing_address", "shipping_address"}

\* The request body has a member of this key.
BodyHasKey(k) == Contains(req.body, Quote(k) \o ":")

EndsWith(s, suffix) ==
    /\ Len(s) >= Len(suffix)
    /\ SubSeq(s, Len(s) - Len(suffix) + 1, Len(s)) = suffix

\* How many times the character c occurs in s.
CountChar(s, c) == Cardinality({i \in 1..Len(s) : SubSeq(s, i, i) = c})

\* The first return value is nil.
ResultIsNil ==
    IF op = "GetOrderShipments" THEN result.isNil ELSE IsNil(result)

\* C1 as stated: the body of a create or update request holds no member of
\* a non-writable field, whatever the caller's shipment holds.
C1_NoNonWritableMember ==
    (Returned /\ op \in WriteOps) =>
        \A k \in NonWritableKeys : ~BodyHasKey(k)

\* C1 as amended: the body holds no member id, order_id, customer_id,
\* date_created, billing_address or shipping_address, and its
\* merchant_shipping_cost member is always the empty string: no value of a
\* non-writable field of the caller's shipment is sent.
C1_NonWritableValuesNotSent ==
    (Returned /\ op \in WriteOps) =>
        /\ req.hasBody
        /\ \A k \in NonWritableKeys \ {"merchant_shipping_cost"} :
              ~BodyHasKey(k)
        /\ Contains(req.body, "\"merchant_shipping_cost\":\"\",")
        /\ CountChar(req.body, "{") = 1 + Len(args.shipment.Items.elems)

C1_Witness ==
    /\ Returned
    /\ op = "CreateOrderShipment"
    /\ args.shipment.ID # 0
    /\ args.shipment.OrderId # 0
    /\ args.shipment.MerchantShippingCost # ""
    /\ ~IsNil(args.shipment.BillingAddress)
    /\ req.body = "{\"tracking_number\":\"\",\"merchant_shipping_cost\":\"\","
                  \o "\"shipping_method\":\"\",\"comments\":\"\","
                  \o "\"shipping_provider\":\"\",\"tracking_carrier\":\"\","
                  \o "\"items\":[{\"order_product_id\":10,\"quantity\":2}]}"

\* The zero-value result of a decoding operation.
ZeroResult(o) ==
    CASE o = "GetInventoryForLocation" -> Ref(ZeroInventoryResource)
      [] o = "GetOrderShipments" -> Slice(<<>>)
      [] OTHER -> Ref(ZeroShipment)

\* C2: when the transport succeeds with status 204, each of the five
\* decoding operations returns its zero-value result and a nil error.
C2_NoContentIsZeroValue ==
    (Returned /\ op \in DecodingOps /\ resp.ok
              /\ resp.StatusCode = StatusNoContent) =>
        /\ err = NoErr
        /\ result = ZeroResult(op)

C2_Witness ==
    /\ Returned
    /\ op = "UpdateOrderShipment"
    /\ resp.ok
    /\ resp.StatusCode = StatusNoContent
    /\ resp.Body.parses
    /\ resp.Body.doc.t = "obj"
    /\ err = NoErr
    /\ result = Ref(ZeroShipment)

\* C3: a delete operation returns (true, nil) exactly when the transport
\* returned no error and (false, the transport's error) when it failed,
\* whatever the status and the body.
C3_DeleteReportsTransportOnly ==
    (Returned /\ op \in DeleteOps) =>
        IF resp.ok THEN result = TRUE /\ err = NoErr
        ELSE result = FALSE /\ err = resp.err /\ err \in TransportErrs

C3_Witness ==
    /\ Returned
    /\ op = "DeleteOrderShipment"
    /\ resp.ok
    /\ resp.StatusCode = 404
    /\ result = TRUE
    /\ err = NoErr

\* The query the request's url carries after its path.
QueryOfUrl ==
    IF op = "GetInventoryForLocation"
    THEN SubSeq(req.url, Len(InventoryItemsPath(args.ID)) + 1, Len(req.url))
    ELSE SubSeq(req.url, Len(OrderShipmentsPath(args.orderId)) + 2,
                Len(req.url))

RECURSIVE Segments(_, _, _)
\* The first n entries of the map in order o, written key=value, an & between.
Segments(f, o, n) ==
    IF n = 0 THEN ""
    ELSE Segments(f, o, n - 1) \o (IF n > 1 THEN "&" ELSE "")
         \o o[n] \o "=" \o f[o[n]]

\* C4: the query built from a filter map of N entries is N key=value
\* segments, one per entry in some order, copied as they are, with N-1
\* separators, none leading or trailing; it is empty for N = 0.
C4_QueryIsJoinedSegments ==
    (Returned /\ op \in FilterOps) =>
        LET f == args.filters
            N == Cardinality(DOMAIN f)
            q == QueryOfUrl
        IN  /\ N = 0 => q = ""
            /\ \E o \in Orders(f) : q = Segments(f, o, N)
            /\ CountChar(q, "=") = N
            /\ CountChar(q, "&") = IF N = 0 THEN 0 ELSE N - 1
            /\ N > 0 => /\ Head(q) # "&"
                        /\ SubSeq(q, Len(q), Len(q)) # "&"

C4_Witness ==
    /\ Returned
    /\ op = "GetOrderShipments"
    /\ Cardinality(DOMAIN args.filters) >= 2
    /\ "sku.in" \in DOMAIN args.filters
    /\ Contains(req.url, "&sku.in=A,B")

\* C5: with a filter map that is not empty, GetInventoryForLocation
\* requests the path, a ?, and the joined segments.
C5_InventoryUrlHasQuestionMark ==
    (Returned /\ op = "GetInventoryForLocation" /\ DOMAIN args.filters # {}) =>
        \E o \in Orders(args.filters) :
            req.url = InventoryItemsPath(args.ID) \o "?"
                      \o Segments(args.filters, o, Len(o))

\* The JSON type the operation decodes.
ExpectedType(o) == IF o = "GetOrderShipments" THEN "arr" ELSE "obj"

\* The body is not well-formed JSON for the type the operation decodes.
NotWellFormedFor(o, body) ==
    \/ ~body.parses
    \/ body.doc.t \notin {ExpectedType(o), "null"}
    \/ /\ body.doc.t = "obj"
       /\ o = "GetInventoryForLocation"
       /\ ~InventoryResourceOk(body.doc.v)
    \/ /\ body.doc.t = "obj"
       /\ o \in WriteOps \cup {"GetOrderShipment"}
       /\ ~ShipmentOk(body.doc.v)
    \/ /\ body.doc.t = "arr"
       /\ o = "GetOrderShipments"
       /\ \E i \in 1..Len(body.doc.v) :
             \/ body.doc.v[i].t \notin {"obj", "null"}
             \/ body.doc.v[i].t = "obj" /\ ~ShipmentOk(body.doc.v[i].v)

\* C6: when the transport succeeds with status 200 and the body the decoder
\* hands back is not well-formed JSON for the expected type, the operation
\* returns a nil result and the decode error.
C6_MalformedBodyIsDecodeError ==
    (Returned /\ op \in DecodingOps /\ resp.ok /\ resp.StatusCode = 200
              /\ ~resp.readFails /\ NotWellFormedFor(op, resp.Body)) =>
        /\ ResultIsNil
        /\ err \in {SyntaxError, UnmarshalTypeError}
        /\ ~resp.Body.parses => err = SyntaxError

C6_Witness ==
    /\ Returned
    /\ op = "GetOrderShipments"
    /\ resp.ok
    /\ resp.StatusCode = 200
    /\ ~resp.readFails
    /\ ~resp.Body.parses
    /\ result = NilSlice
    /\ err = SyntaxError

\* C7: two calls of a write operation whose shipments differ and whose
\* transport responses are the same return the same result and error.
C7_ResultIsFunctionOfResponse ==
    (Returned /\ op \in WriteOps) =>
        /\ callB.result = result
        /\ callB.err = err

C7_Witness ==
    /\ Returned
    /\ op = "UpdateOrderShipment"
    /\ callB.shipment.Comments # args.shipment.Comments
    /\ callB.shipment.ID # args.shipment.ID
    /\ args.shipment.Comments # ""
    /\ resp.ok
    /\ resp.StatusCode = 200
    /\ err = NoErr
    /\ ~IsNil(result)
    /\ Deref(result).Comments = ""
    /\ Deref(result).TrackingNumber = "T2"

\* C8: UpdateOrderShipment sends its PUT to the shipment id the caller
\* passed: the url ends in /shipments/0 only when that id is 0.
C8_UpdateUrlUsesCallerID ==
    (Returned /\ op = "UpdateOrderShipment") =>
        /\ req.method = "PUT"
        /\ req.url = "/v2/orders/" \o Itoa(args.orderId) \o "/shipments/"
                     \o Itoa(args.shipment.ID)
        /\ EndsWith(req.url, "/shipments/0") => args.shipment.ID = 0
        /\ (args.orderId = 1 /\ args.shipment.ID = 42) =>
              req.url = "/v2/orders/1/shipments/42"

C8_Witness ==
    /\ Returned
    /\ op = "UpdateOrderShipment"
    /\ args.shipment.ID = 42
    /\ args.orderId = 0
    /\ req.url = "/v2/orders/0/shipments/42"
    /\ ~BodyHasKey("id")

\* C9: a decoding operation returns a non-nil result with a nil error, or a
\* nil result with a non-nil error, and nothing else.
C9_ResultOrError ==
    (Returned /\ op \in DecodingOps) =>
        \/ ~ResultIsNil /\ err = NoErr
        \/ ResultIsNil /\ err # NoErr

\* C10: when the transport returned a response, its body has been closed
\* exactly once when the operation returns.
C10_BodyClosedOnce ==
    (Returned /\ resp.ok) => closes = 1

=============================================================================
